---- MODULE Spec2Model ----
(***************************************************************************)
(* FloorCast-MPC: rolling-horizon elevator scheduler (mpc_scheduler.py),   *)
(* its physical cost model (models/kinematics.py, models/temporal.py,      *)
(* models/energy.py) and the objective evaluator (models/objective.py).    *)
(*                                                                         *)
(* Numbers are fixed point.  Time is counted in ticks of 0.1 s, speed in   *)
(* mm/s, acceleration in mm/s^2, distance in mm (dm for energy), energy    *)
(* in mJ, and the scheduler's estimated cost in units of 1e-7, so that     *)
(* the finish-time bias 1e-6 * finish_time is exactly one cost unit per    *)
(* tick.                                                                   *)
(***************************************************************************)
EXTENDS Integers, Sequences, FiniteSets, TLC

VARIABLES
    elevators,      \* the fleet: sequence of ElevatorState (+ queue, served_requests)
    requests,       \* the request list handed to the current call
    unassigned,     \* the arrival-sorted backlog of the current call
    plans,          \* _PlanState per elevator id
    horizon,        \* lookahead window of the current call (ticks)
    batch_limit,    \* effective batch cap of the current call
    pc,             \* "idle" | "loop" | "done": position in assign_requests_mpc
    calls,          \* calls of assign_requests_mpc so far: 0, 1, or 2 for more
    iter,           \* loop iterations completed in the current call
    last,           \* what the latest loop iteration evaluated and committed
    params,         \* lookahead_window / max_batch arguments of the current call
    prev,           \* arguments and resulting queues of the previous finished call
    served,         \* the served_requests argument of the latest summary
    metrics,        \* PassengerMetrics returned by the latest summary, if any
    objective,      \* arguments and ObjectiveBreakdown of the latest compute_objective
    penalty_eval,   \* configuration, argument and value of the latest wait_penalty
    EMPTYLOAD_PENALTY_MULTIPLIER    \* objective.py:12, read once from the
                                    \* configuration, in tenths

schedVars == <<elevators, requests, unassigned, plans, horizon, batch_limit,
               pc, calls, iter, last, params, prev>>

evalVars == <<served, metrics, objective, penalty_eval,
              EMPTYLOAD_PENALTY_MULTIPLIER>>

vars == <<schedVars, evalVars>>

-----------------------------------------------------------------------------
(* Optional values (Python None) *)

NoneOpt == [some |-> FALSE, val |-> 0]

Some(v) == [some |-> TRUE, val |-> v]

Abs(x) == IF x < 0 THEN 0 - x ELSE x

Max(a, b) == IF a >= b THEN a ELSE b

Min(a, b) == IF a <= b THEN a ELSE b

RECURSIVE IsqrtSearch(_, _, _)
IsqrtSearch(n, lo, hi) ==
    IF lo >= hi THEN lo
    ELSE LET mid == (lo + hi + 1) \div 2
         IN IF mid * mid <= n THEN IsqrtSearch(n, mid, hi)
                              ELSE IsqrtSearch(n, lo, mid - 1)

\* floor(sqrt(n)) for 0 <= n < 2^30
Isqrt(n) == IsqrtSearch(n, 0, 32767)

\* milliseconds to ticks of 0.1 s, rounded to nearest
MsToTicks(ms) == (ms + 50) \div 100

-----------------------------------------------------------------------------
(* config.py *)

BUILDING_FLOOR_HEIGHT == 3500

ENERGY_CAR_MASS == 600

ENERGY_COUNTERWEIGHT_MASS == 500

ENERGY_FRICTION_PER_METER == 50

ENERGY_MOTOR_EFFICIENCY == 85

ENERGY_STANDBY_POWER == 500

HOLD_BASE_TIME == 1500

HOLD_EFF_NORMAL == 2

HOLD_EFF_CONGESTED == 5

HOLD_CONGESTION_THRESHOLD == 400

GRAVITY == 981

MPC_LOOKAHEAD_WINDOW == 2400

MPC_MAX_BATCH == 12

\* the request loads of the model, and 0 for the empty cab
Loads == {0, 70, 100, 450}

-----------------------------------------------------------------------------
(* models/kinematics.py *)

\* exponential interpolation between the empty and full extremes, in mm/s
\* and mm/s^2, evaluated at the loads of the model
vmax_up(load) ==
    CASE load = 0 -> 3000 [] load = 70 -> 2966 [] load = 100 -> 2952
      [] load = 450 -> 2819

vmax_down(load) ==
    CASE load = 0 -> 3000 [] load = 70 -> 2973 [] load = 100 -> 2962
      [] load = 450 -> 2855

acc(load) ==
    CASE load = 0 -> 1200 [] load = 70 -> 1178 [] load = 100 -> 1169
      [] load = 450 -> 1084

dec(load) ==
    CASE load = 0 -> 1200 [] load = 70 -> 1185 [] load = 100 -> 1179
      [] load = 450 -> 1123

\* motion time between two floors, in ms
travel_time_ms(load, origin_floor, destination_floor) ==
    LET distance == Abs(destination_floor - origin_floor) * BUILDING_FLOOR_HEIGHT
        direction == IF destination_floor > origin_floor THEN "up" ELSE "down"
        vmax == IF direction = "up" THEN vmax_up(load) ELSE vmax_down(load)
        a_acc == acc(load)
        a_dec == dec(load)
        v_peak == Isqrt(2 * distance * ((a_acc * a_dec) \div (a_acc + a_dec)))
    IN IF v_peak <= vmax
       THEN (v_peak * 1000) \div a_acc + (v_peak * 1000) \div a_dec
       ELSE LET d_acc == (vmax * vmax) \div (2 * a_acc)
                d_dec == (vmax * vmax) \div (2 * a_dec)
                d_const == Max(distance - d_acc - d_dec, 0)
            IN (vmax * 1000) \div a_acc + (vmax * 1000) \div a_dec
               + (d_const * 1000) \div vmax

\* the floors of the building, BUILDING_FLOORS = 15
Floors == 1..15

\* travel_time in ticks for every load and pair of floors of the model
TravelTicks ==
    [load \in Loads, origin_floor \in Floors, destination_floor \in Floors |->
        MsToTicks(travel_time_ms(load, origin_floor, destination_floor))]

travel_time(load, origin_floor, destination_floor) ==
    TravelTicks[load, origin_floor, destination_floor]

-----------------------------------------------------------------------------
(* models/temporal.py *)

hold_time_ms(boarding_weight, alighting_weight) ==
    LET total_weight == boarding_weight + alighting_weight
    IN IF total_weight <= HOLD_CONGESTION_THRESHOLD
       THEN HOLD_BASE_TIME + HOLD_EFF_NORMAL * total_weight
       ELSE LET normal_part == HOLD_EFF_NORMAL * HOLD_CONGESTION_THRESHOLD
                congested_part == HOLD_EFF_CONGESTED
                                  * (total_weight - HOLD_CONGESTION_THRESHOLD)
            IN HOLD_BASE_TIME + normal_part + congested_part

hold_time(boarding_weight, alighting_weight) ==
    MsToTicks(hold_time_ms(boarding_weight, alighting_weight))

-----------------------------------------------------------------------------
(* models/energy.py (section 4.2 of the specification) *)

\* drawn electrical energy in mJ for a vertical segment of distance_dm
\* decimetres: gravitational work of the effective mass, floored at 0,
\* plus friction per metre, divided by the motor efficiency
segment_energy(load, distance_dm, direction) ==
    LET delta_m == IF direction = "up"
                   THEN ENERGY_CAR_MASS + load - ENERGY_COUNTERWEIGHT_MASS
                   ELSE ENERGY_COUNTERWEIGHT_MASS - (ENERGY_CAR_MASS + load)
        potential == Max(delta_m * GRAVITY * distance_dm, 0)
        friction == ENERGY_FRICTION_PER_METER * 100 * distance_dm
    IN ((potential + friction) * 20) \div (ENERGY_MOTOR_EFFICIENCY \div 5)

\* standby power times duration (ticks of 0.1 s), in mJ
standby_energy(duration) == ENERGY_STANDBY_POWER * 100 * duration

-----------------------------------------------------------------------------
(* mpc_scheduler.py *)

WEIGHT_TIME == 1000000

WEIGHT_ENERGY == 10

FINISH_BIAS == 1

\* eps = 1e-9 is smaller than one unit of the fixed-point grid (1e-7 of
\* cost, 0.1 s of time), so on grid values  x < y - eps  is  x < y  and
\* abs(x - y) <= eps  is  x = y
LessByEps(x, y) == x < y

WithinEps(x, y) == x = y

_direction(start, end) ==
    IF end > start THEN "up"
    ELSE IF end < start THEN "down"
    ELSE "up"

\* energy drawn by appending the request to the plan, in mJ
_estimate_energy(plan, request) ==
    LET current_floor == plan.floor
        origin == request.origin
        destination == request.destination
        travel_to_origin == travel_time(0, current_floor, origin)
        dwell == hold_time(request.load, 0)
        travel_to_dest == travel_time(request.load, origin, destination)
        empty_part ==
            IF current_floor # origin
            THEN segment_energy(0, Abs(current_floor - origin)
                                   * (BUILDING_FLOOR_HEIGHT \div 100),
                                _direction(current_floor, origin))
                 + standby_energy(travel_to_origin)
            ELSE 0
        loaded_part ==
            IF origin # destination
            THEN segment_energy(request.load,
                                Abs(destination - origin)
                                * (BUILDING_FLOOR_HEIGHT \div 100),
                                _direction(origin, destination))
                 + standby_energy(travel_to_dest)
            ELSE 0
    IN empty_part + standby_energy(dwell) + loaded_part

\* variant: boarding starts when the passenger arrives, even before the cab
_estimate_incremental_cost_from_arrival(plan, request) ==
    LET current_floor == plan.floor
        available_time == plan.time
        origin == request.origin
        destination == request.destination
        travel_to_origin == travel_time(0, current_floor, origin)
        arrival_at_origin == available_time + travel_to_origin
        start_service == request.arrival_time
        dwell == hold_time(request.load, 0)
        depart_time == start_service + dwell
        travel_to_dest == travel_time(request.load, origin, destination)
        finish_time == depart_time + travel_to_dest
        passenger_time == finish_time - request.arrival_time
        energy == _estimate_energy(plan, request)
        total_cost == WEIGHT_TIME * passenger_time + WEIGHT_ENERGY * energy
                      + FINISH_BIAS * finish_time
    IN [some |-> TRUE, cost |-> total_cost, finish_time |-> finish_time,
        passenger_time |-> passenger_time]

\* variant: boarding starts when the cab arrives, even before the passenger
_estimate_incremental_cost_no_wait(plan, request) ==
    LET current_floor == plan.floor
        available_time == plan.time
        origin == request.origin
        destination == request.destination
        travel_to_origin == travel_time(0, current_floor, origin)
        arrival_at_origin == available_time + travel_to_origin
        start_service == arrival_at_origin
        dwell == hold_time(request.load, 0)
        depart_time == start_service + dwell
        travel_to_dest == travel_time(request.load, origin, destination)
        finish_time == depart_time + travel_to_dest
        passenger_time == finish_time - request.arrival_time
        energy == _estimate_energy(plan, request)
        total_cost == WEIGHT_TIME * passenger_time + WEIGHT_ENERGY * energy
                      + FINISH_BIAS * finish_time
    IN [some |-> TRUE, cost |-> total_cost, finish_time |-> finish_time,
        passenger_time |-> passenger_time]

\* (total_cost, finish_time, passenger_time) of appending request to plan
_estimate_incremental_cost(plan, request) ==
    LET current_floor == plan.floor
        available_time == plan.time
        origin == request.origin
        destination == request.destination
        travel_to_origin == travel_time(0, current_floor, origin)
        arrival_at_origin == available_time + travel_to_origin
        start_service == Max(arrival_at_origin, request.arrival_time)
        dwell == hold_time(request.load, 0)
        depart_time == start_service + dwell
        travel_to_dest == travel_time(request.load, origin, destination)
        finish_time == depart_time + travel_to_dest
        passenger_time == finish_time - request.arrival_time
        energy == _estimate_energy(plan, request)
        total_cost == WEIGHT_TIME * passenger_time + WEIGHT_ENERGY * energy
                      + FINISH_BIAS * finish_time
    IN [some |-> TRUE, cost |-> total_cost, finish_time |-> finish_time,
        passenger_time |-> passenger_time]

\* variant: the request is put at the head of the queue
_apply_assignment_at_head(elevator, request) ==
    [elevator EXCEPT !.queue = <<request>> \o @,
                     !.served_requests = <<request>> \o @]

\* variant: the request is queued but not recorded as served
_apply_assignment_queue_only(elevator, request) ==
    [elevator EXCEPT !.queue = Append(@, request)]

\* elevator.queue.append(request); elevator.served_requests.append(request)
_apply_assignment(elevator, request) ==
    [elevator EXCEPT !.queue = Append(@, request),
                     !.served_requests = Append(@, request)]

\* sorted(requests, key=arrival_time): stable insertion into a sorted list
RECURSIVE InsertSorted(_, _)
InsertSorted(sorted, r) ==
    IF sorted = <<>> THEN <<r>>
    ELSE IF sorted[Len(sorted)].arrival_time <= r.arrival_time
         THEN Append(sorted, r)
         ELSE Append(InsertSorted(SubSeq(sorted, 1, Len(sorted) - 1), r),
                     sorted[Len(sorted)])

RECURSIVE SortByArrival(_)
SortByArrival(reqs) ==
    IF reqs = <<>> THEN <<>>
    ELSE InsertSorted(SortByArrival(SubSeq(reqs, 1, Len(reqs) - 1)),
                      reqs[Len(reqs)])

\* variant: the request is read but left in the backlog
PopKeeps(seq, idx) == seq

\* unassigned.pop(idx)
Pop(seq, idx) == SubSeq(seq, 1, idx - 1) \o SubSeq(seq, idx + 1, Len(seq))

\* variant: only the requests inside the window are taken
RECURSIVE CandidateScanWindowOnly(_, _, _, _, _)
CandidateScanWindowOnly(un, idx, candidate_indices, window_limit, limit) ==
    IF idx > Len(un) THEN candidate_indices
    ELSE LET req == un[idx]
             taken == IF req.arrival_time <= window_limit
                      THEN Append(candidate_indices, idx)
                      ELSE candidate_indices
         IN IF Len(taken) >= limit THEN taken
            ELSE CandidateScanWindowOnly(un, idx + 1, taken, window_limit, limit)

\* variant: the scan stops only once the cap is exceeded
RECURSIVE CandidateScanLate(_, _, _, _, _)
CandidateScanLate(un, idx, candidate_indices, window_limit, limit) ==
    IF idx > Len(un) THEN candidate_indices
    ELSE LET req == un[idx]
             taken == IF req.arrival_time <= window_limit
                      THEN Append(candidate_indices, idx)
                      ELSE IF Len(candidate_indices) < limit
                           THEN Append(candidate_indices, idx)
                           ELSE candidate_indices
         IN IF Len(taken) > limit THEN taken
            ELSE CandidateScanLate(un, idx + 1, taken, window_limit, limit)

\* the scan of lines 69-76: indices of the backlog taken as candidates
RECURSIVE CandidateScan(_, _, _, _, _)
CandidateScan(un, idx, candidate_indices, window_limit, limit) ==
    IF idx > Len(un) THEN candidate_indices
    ELSE LET req == un[idx]
             taken == IF req.arrival_time <= window_limit
                      THEN Append(candidate_indices, idx)
                      ELSE IF Len(candidate_indices) < limit
                           THEN Append(candidate_indices, idx)
                           ELSE candidate_indices
         IN IF Len(taken) >= limit THEN taken
            ELSE CandidateScan(un, idx + 1, taken, window_limit, limit)

CandidateIndices(un, hor, limit) ==
    LET earliest_arrival == un[1].arrival_time
        window_limit == earliest_arrival + hor
        scanned == CandidateScan(un, 1, <<>>, window_limit, limit)
    IN IF scanned = <<>>
       THEN [i \in 1..Min(limit, Len(un)) |-> i]
       ELSE scanned

NoChoice == [some |-> FALSE, idx |-> 0, elevator_id |-> 0, passenger_time |-> 0,
             finish_time |-> 0, cost |-> 0]

\* variant: the first estimate is not taken as the best so far
ImprovesOnBestOnly(estimate, best) ==
    /\ best.some
    /\ \/ LessByEps(estimate.cost, best.cost)
       \/ /\ WithinEps(estimate.cost, best.cost)
          /\ LessByEps(estimate.finish_time, best.finish_time)
       \/ /\ WithinEps(estimate.cost, best.cost)
          /\ WithinEps(estimate.finish_time, best.finish_time)
          /\ estimate.passenger_time < best.passenger_time

\* variant: the pairs are ranked by finish time, not by cost
ImprovesByFinish(estimate, best) ==
    \/ ~best.some
    \/ LessByEps(estimate.finish_time, best.finish_time)
    \/ /\ WithinEps(estimate.finish_time, best.finish_time)
       /\ estimate.passenger_time < best.passenger_time

\* the test of lines 92-104: does the estimate replace the best so far
Improves(estimate, best) ==
    \/ ~best.some
    \/ LessByEps(estimate.cost, best.cost)
    \/ /\ WithinEps(estimate.cost, best.cost)
       /\ LessByEps(estimate.finish_time, best.finish_time)
    \/ /\ WithinEps(estimate.cost, best.cost)
       /\ WithinEps(estimate.finish_time, best.finish_time)
       /\ estimate.passenger_time < best.passenger_time

\* the double loop of lines 84-106, candidates outer, elevators inner
RECURSIVE SelectBest(_, _, _, _, _, _)
SelectBest(un, pl, candidate_indices, k, e, best) ==
    IF k > Len(candidate_indices) THEN best
    ELSE IF e > Len(pl) THEN SelectBest(un, pl, candidate_indices, k + 1, 1, best)
    ELSE LET idx == candidate_indices[k]
             estimate == _estimate_incremental_cost(pl[e], un[idx])
             better == IF estimate.some /\ Improves(estimate, best)
                       THEN [some |-> TRUE, idx |-> idx, elevator_id |-> e,
                             passenger_time |-> estimate.passenger_time,
                             finish_time |-> estimate.finish_time,
                             cost |-> estimate.cost]
                       ELSE best
         IN SelectBest(un, pl, candidate_indices, k, e + 1, better)

\* min(plans, key=lambda eid: plans[eid].time): first id of least time
LeastBusy(pl) ==
    CHOOSE e \in 1..Len(pl) :
        /\ \A f \in 1..Len(pl) : pl[e].time <= pl[f].time
        /\ \A f \in 1..(e - 1) : pl[f].time > pl[e].time

-----------------------------------------------------------------------------
(* models/objective.py *)

\* 60.0 s, in ticks
WAIT_PENALTY_SCALE == 600

\* 1.5, in halves
WAIT_PENALTY_EXPONENT == 3

WAIT_PENALTY_THRESHOLD == 0

\* excess * (excess / scale) ** exponent, rounded down to a tick, for an
\* exponent of 1, 1.5 or 2 (2, 3 or 4 halves)
NonlinearExcess(excess, scale, exponent) ==
    CASE exponent = 2 -> (excess * excess) \div scale
      [] exponent = 3 -> (excess * excess * Isqrt(excess * scale * 100))
                             \div (scale * scale * 10)
      [] exponent = 4 -> (excess * excess * excess) \div (scale * scale)

\* excess * (excess / scale) ** exponent for the scale at its floor of
\* 1e-6 s, a 100000th of a tick, and an exponent of 1 or 1.5; with an
\* exponent of 2 the value leaves the number range for every excess
NonlinearExcessAtFloor(excess, exponent) ==
    CASE exponent = 2 -> excess * excess * 100000
      [] exponent = 3 -> excess * excess * 10000 * Isqrt(excess * 10000000)

\* variant: a negative threshold is used as configured
wait_penalty_cfg_raw_threshold(wait_time, SCALE, EXPONENT, THRESHOLD) ==
    IF wait_time <= 0 THEN 0
    ELSE LET exponent == Max(EXPONENT, 2)
             threshold == THRESHOLD
         IN IF wait_time <= threshold THEN wait_time
            ELSE LET excess == wait_time - threshold
                 IN threshold + excess
                        + IF SCALE <= 0
                          THEN NonlinearExcessAtFloor(excess, exponent)
                          ELSE NonlinearExcess(excess, SCALE, exponent)

\* lines 33-60 under the configuration (SCALE, EXPONENT, THRESHOLD), the
\* scale and threshold in ticks and the exponent in halves.
\* max(SCALE, 1e-6) is SCALE for a scale of a tick or more and the floor
\* for a scale of 0 or less.
wait_penalty_cfg(wait_time, SCALE, EXPONENT, THRESHOLD) ==
    IF wait_time <= 0 THEN 0
    ELSE LET exponent == Max(EXPONENT, 2)
             threshold == Max(THRESHOLD, 0)
         IN IF wait_time <= threshold THEN wait_time
            ELSE LET excess == wait_time - threshold
                 IN threshold + excess
                        + IF SCALE <= 0
                          THEN NonlinearExcessAtFloor(excess, exponent)
                          ELSE NonlinearExcess(excess, SCALE, exponent)

\* lines 33-60 under the configuration of lines 9-11
wait_penalty(wait_time) ==
    wait_penalty_cfg(wait_time, WAIT_PENALTY_SCALE, WAIT_PENALTY_EXPONENT,
                     WAIT_PENALTY_THRESHOLD)

ZeroMetrics == [total_passenger_time |-> 0, total_wait_time |-> 0,
                total_in_cab_time |-> 0, wait_penalty_total |-> 0,
                served_count |-> 0]

\* variant: only a request without arrival time is skipped
SkippedOnlyWithoutArrival(req) == ~req.arrival_time.some

\* line 78: arr is None or dest_arrival is None
Skipped(req) ==
    ~req.arrival_time.some \/ ~req.destination_arrival_time.some

\* lines 74-90: the body of the loop over served_requests
MetricsLoopBody(m, req) ==
    LET arr == req.arrival_time
        origin_arrival == req.origin_arrival_time
        dest_arrival == req.destination_arrival_time
    IN IF Skipped(req) THEN m
       ELSE LET trip_total == Max(dest_arrival.val - arr.val, 0)
                wait == Max(origin_arrival.val - arr.val, 0)
            IN IF origin_arrival.some
               THEN [total_passenger_time |-> m.total_passenger_time + trip_total,
                     total_wait_time |-> m.total_wait_time + wait,
                     wait_penalty_total |->
                         m.wait_penalty_total + wait_penalty(wait),
                     total_in_cab_time |->
                         m.total_in_cab_time
                             + Max(dest_arrival.val - origin_arrival.val, 0),
                     served_count |-> m.served_count + 1]
               ELSE [total_passenger_time |-> m.total_passenger_time + trip_total,
                     total_wait_time |-> m.total_wait_time,
                     wait_penalty_total |-> m.wait_penalty_total,
                     total_in_cab_time |-> m.total_in_cab_time + trip_total,
                     served_count |-> m.served_count + 1]

RECURSIVE MetricsLoop(_, _, _)
MetricsLoop(served_requests, k, m) ==
    IF k > Len(served_requests) THEN m
    ELSE MetricsLoop(served_requests, k + 1,
                     MetricsLoopBody(m, served_requests[k]))

\* lines 63-100
summarize_passenger_metrics(served_requests) ==
    MetricsLoop(served_requests, 1, ZeroMetrics)

\* variant: the whole multiplier is charged on the empty-load energy
extra_multiplier_whole == EMPTYLOAD_PENALTY_MULTIPLIER

\* line 128: max(EMPTYLOAD_PENALTY_MULTIPLIER - 1.0, 0.0), in tenths
extra_multiplier == Max(EMPTYLOAD_PENALTY_MULTIPLIER - 10, 0)

\* lines 103-139; times in ticks, energies in mJ, costs in units of 1e-7
compute_objective(wait_time, in_cab_time, emptyload_energy, running_energy, wait_penalty_value) ==
    LET penalty == IF wait_penalty_value.some THEN wait_penalty_value.val
                   ELSE wait_penalty(wait_time)
        wait_cost == WEIGHT_TIME * penalty
        ride_cost == WEIGHT_TIME * in_cab_time
        running_energy_cost == WEIGHT_ENERGY * running_energy
        emptyload_energy_cost ==
            (WEIGHT_ENERGY * emptyload_energy * extra_multiplier) \div 10
    IN [total_cost |-> wait_cost + ride_cost + running_energy_cost
                           + emptyload_energy_cost,
        wait_cost |-> wait_cost,
        ride_cost |-> ride_cost,
        running_energy_cost |-> running_energy_cost,
        emptyload_energy_cost |-> emptyload_energy_cost]

-----------------------------------------------------------------------------
(* Inputs of the model *)

MaxElev == 2

MaxReq == 3

MaxReqRepeat == 2

\* floors at which the elevators of the fleet stand
ElevFloors == {1, 15}

\* (origin, destination, load in kg, arrival_time in ticks)
RequestCatalogue ==
    { [origin |-> 1, destination |-> 4, load |-> 100, arrival_time |-> 0],
      [origin |-> 8, destination |-> 1, load |-> 70,  arrival_time |-> 0],
      [origin |-> 2, destination |-> 2, load |-> 450, arrival_time |-> 50],
      [origin |-> 3, destination |-> 1, load |-> 70,  arrival_time |-> 600] }

RepeatCatalogue ==
    { [origin |-> 8, destination |-> 1, load |-> 70,  arrival_time |-> 0],
      [origin |-> 3, destination |-> 1, load |-> 70,  arrival_time |-> 50] }

LookaheadChoices == {NoneOpt, Some(20), Some(-10)}

MaxBatchChoices == {NoneOpt, Some(0), Some(1), Some(2)}

SeqsUpTo(S, n) == UNION {[1..k -> S] : k \in 0..n}

\* Request(id, origin, destination, load, arrival_time), ids by position
MakeRequests(shapes) ==
    [i \in 1..Len(shapes) |->
        [id |-> i, origin |-> shapes[i].origin,
         destination |-> shapes[i].destination, load |-> shapes[i].load,
         arrival_time |-> shapes[i].arrival_time]]

\* ElevatorState(id=k, floor=f): load 0.0, direction "idle", no queue yet
MakeFleet(floors) ==
    [k \in 1..Len(floors) |->
        [id |-> k, floor |-> floors[k], load |-> 0, direction |-> "idle",
         queue |-> <<>>, served_requests |-> <<>>]]

NoLast == [branch |-> "none", candidate_indices |-> <<>>, idx |-> 0,
           elevator_id |-> 0, request |-> NoneOpt, finish_time |-> 0,
           passenger_time |-> 0, cost |-> 0,
           unassigned |-> <<>>, plans |-> <<>>]

NoPrev == [valid |-> FALSE, requests |-> <<>>, params |-> <<NoneOpt, NoneOpt>>,
           queues |-> <<>>]

Queues == [e \in 1..Len(elevators) |-> elevators[e].queue]

NoMetrics == [some |-> FALSE, val |-> ZeroMetrics]

NoObjective == [called |-> FALSE, wait_time |-> 0, in_cab_time |-> 0,
                emptyload_energy |-> 0, running_energy |-> 0,
                wait_penalty_value |-> NoneOpt,
                breakdown |-> [total_cost |-> 0, wait_cost |-> 0,
                               ride_cost |-> 0, running_energy_cost |-> 0,
                               emptyload_energy_cost |-> 0]]

NoPenalty == [called |-> FALSE, wait_time |-> 0,
              SCALE |-> WAIT_PENALTY_SCALE, EXPONENT |-> WAIT_PENALTY_EXPONENT,
              THRESHOLD |-> WAIT_PENALTY_THRESHOLD, value |-> 0]

\* nothing evaluated yet
EvalIdle ==
    /\ served = <<>>
    /\ metrics = NoMetrics
    /\ objective = NoObjective
    /\ penalty_eval = NoPenalty

Init ==
    /\ EvalIdle
    /\ EMPTYLOAD_PENALTY_MULTIPLIER = 20
    /\ elevators \in {MakeFleet(fl) : fl \in SeqsUpTo(ElevFloors, MaxElev)}
    /\ requests = <<>>
    /\ unassigned = <<>>
    /\ plans = <<>>
    /\ horizon = 0
    /\ batch_limit = 0
    /\ pc = "idle"
    /\ calls = 0
    /\ iter = 0
    /\ last = NoLast
    /\ params = <<NoneOpt, NoneOpt>>
    /\ prev = NoPrev

-----------------------------------------------------------------------------
(* assign_requests_mpc, lines 45-63: up to the first test of the loop *)

\* variant: the queues of an earlier call are kept
ClearQueuesKeeps(fleet) == fleet

\* lines 53-55: elev.queue = []; elev.served_requests = []
ClearQueues(fleet) ==
    [e \in 1..Len(fleet) |->
        [fleet[e] EXCEPT !.queue = <<>>, !.served_requests = <<>>]]

\* variant: the plan states an earlier call left behind are reused
SeedPlansStale(fleet) ==
    IF Len(plans) = Len(fleet) THEN plans
    ELSE [e \in 1..Len(fleet) |-> [floor |-> fleet[e].floor, time |-> 0]]

\* line 61: one _PlanState per elevator, at its floor, free at time 0
SeedPlans(fleet) ==
    [e \in 1..Len(fleet) |-> [floor |-> fleet[e].floor, time |-> 0]]

\* lines 48-51: the batch cap the loop uses
EffectiveBatchLimit(max_batch, fleet) ==
    LET limit0 == IF ~max_batch.some THEN MPC_MAX_BATCH ELSE max_batch.val
    IN IF limit0 <= 0 THEN Max(Len(fleet) * 3, 1) ELSE limit0

AssignRequestsMpc(reqs, lookahead_window, max_batch) ==
    LET hor == IF ~lookahead_window.some THEN MPC_LOOKAHEAD_WINDOW
               ELSE lookahead_window.val
        limit == EffectiveBatchLimit(max_batch, elevators)
    IN /\ calls' = Min(calls + 1, 2)
       /\ requests' = reqs
       /\ params' = <<lookahead_window, max_batch>>
       /\ prev' = IF pc = "done"
                  THEN [valid |-> TRUE, requests |-> requests,
                        params |-> params, queues |-> Queues]
                  ELSE prev
       /\ iter' = 0
       /\ last' = NoLast
       /\ IF elevators = <<>>
          THEN /\ pc' = "done"
               /\ unassigned' = <<>>
               /\ plans' = <<>>
               /\ UNCHANGED <<elevators, horizon, batch_limit>>
          ELSE /\ horizon' = hor
               /\ batch_limit' = limit
               /\ elevators' = ClearQueues(elevators)
               /\ IF reqs = <<>>
                  THEN /\ pc' = "done"
                       /\ unassigned' = <<>>
                       /\ plans' = <<>>
                  ELSE /\ pc' = "loop"
                       /\ unassigned' = SortByArrival(reqs)
                       /\ plans' = SeedPlans(elevators)
       /\ UNCHANGED evalVars

\* the first call on a freshly built fleet
Call ==
    /\ pc = "idle"
    /\ \E shapes \in SeqsUpTo(RequestCatalogue, MaxReq),
          lookahead_window \in LookaheadChoices,
          max_batch \in MaxBatchChoices :
          AssignRequestsMpc(MakeRequests(shapes), lookahead_window, max_batch)

\* a call on a fleet that earlier calls may have used
Recall ==
    /\ pc \in {"idle", "done"}
    /\ \E shapes \in SeqsUpTo(RepeatCatalogue, MaxReqRepeat),
          lookahead_window \in {NoneOpt},
          max_batch \in {NoneOpt, Some(1)} :
          AssignRequestsMpc(MakeRequests(shapes), lookahead_window, max_batch)

(* assign_requests_mpc, lines 65-126: one iteration of the while loop *)

Iterate ==
    /\ pc = "loop"
    /\ unassigned # <<>>
    /\ \E candidate_indices \in {CandidateIndices(unassigned, horizon, batch_limit)} :
       \E best_choice \in {SelectBest(unassigned, plans, candidate_indices,
                                     1, 1, NoChoice)} :
       LET fallback == ~best_choice.some
           idx == IF fallback THEN candidate_indices[1] ELSE best_choice.idx
           req == unassigned[idx]
           target_id == IF fallback THEN LeastBusy(plans)
                        ELSE best_choice.elevator_id
           estimate == _estimate_incremental_cost(plans[target_id], req)
           finish_time == IF fallback
                          THEN IF estimate.some THEN estimate.finish_time
                               ELSE plans[target_id].time
                          ELSE best_choice.finish_time
           passenger_time == IF fallback THEN estimate.passenger_time
                             ELSE best_choice.passenger_time
           cost == IF fallback THEN estimate.cost ELSE best_choice.cost
       IN /\ unassigned' = Pop(unassigned, idx)
          /\ elevators' = [elevators EXCEPT
                             ![target_id] = _apply_assignment(@, req)]
          /\ plans' = [plans EXCEPT ![target_id] =
                         [floor |-> req.destination, time |-> finish_time]]
          /\ last' = [branch |-> IF fallback THEN "fallback" ELSE "best",
                      candidate_indices |-> candidate_indices, idx |-> idx,
                      elevator_id |-> target_id, request |-> Some(req),
                      finish_time |-> finish_time,
                      passenger_time |-> passenger_time, cost |-> cost,
                      unassigned |-> unassigned, plans |-> plans]
          /\ iter' = iter + 1
          /\ pc' = IF Pop(unassigned, idx) = <<>> THEN "done" ELSE "loop"
    /\ UNCHANGED <<requests, horizon, batch_limit, calls, params, prev>>
    /\ UNCHANGED evalVars

Next == Call \/ Iterate

Spec == Init /\ [][Next]_vars

NextRepeat == Recall \/ Iterate

SpecRepeat == Init /\ [][NextRepeat]_vars

-----------------------------------------------------------------------------
(* The evaluator: summarize_passenger_metrics and compute_objective *)

MaxServed == 3

\* served requests by their three time stamps (ticks); None where the
\* attribute is missing or was never set
ServedCatalogue ==
    { [arrival_time |-> Some(0), origin_arrival_time |-> Some(100),
       destination_arrival_time |-> Some(250)],
      [arrival_time |-> Some(20), origin_arrival_time |-> Some(320),
       destination_arrival_time |-> Some(400)],
      [arrival_time |-> Some(50), origin_arrival_time |-> NoneOpt,
       destination_arrival_time |-> Some(200)],
      [arrival_time |-> Some(100), origin_arrival_time |-> NoneOpt,
       destination_arrival_time |-> Some(40)],
      [arrival_time |-> Some(0), origin_arrival_time |-> Some(100),
       destination_arrival_time |-> NoneOpt],
      [arrival_time |-> NoneOpt, origin_arrival_time |-> Some(30),
       destination_arrival_time |-> Some(90)] }

\* EMPTYLOAD_PENALTY_MULTIPLIER settings 0.5, 1.0, 1.5 and the default 2.0
MultiplierChoices == {5, 10, 15, 20}

WaitTimes == {-20, 0, 50, 300}

InCabTimes == {-50, 0, 200}

EmptyloadEnergies == {0, 4000000}

RunningEnergies == {0, 9000000}

WaitPenaltyValues == {NoneOpt, Some(0), Some(80)}

\* the scheduler at rest, with no fleet
SchedIdle ==
    /\ elevators = <<>>
    /\ requests = <<>>
    /\ unassigned = <<>>
    /\ plans = <<>>
    /\ horizon = 0
    /\ batch_limit = 0
    /\ pc = "idle"
    /\ calls = 0
    /\ iter = 0
    /\ last = NoLast
    /\ params = <<NoneOpt, NoneOpt>>
    /\ prev = NoPrev

\* the served list is in hand, nothing is summarised yet
InitMetrics ==
    /\ SchedIdle
    /\ served \in SeqsUpTo(ServedCatalogue, MaxServed)
    /\ metrics = NoMetrics
    /\ objective = NoObjective
    /\ penalty_eval = NoPenalty
    /\ EMPTYLOAD_PENALTY_MULTIPLIER = 20

SummarizePassengerMetrics ==
    /\ ~metrics.some
    /\ metrics' = Some(summarize_passenger_metrics(served))
    /\ UNCHANGED <<schedVars, served, objective, penalty_eval,
                   EMPTYLOAD_PENALTY_MULTIPLIER>>

NextMetrics == SummarizePassengerMetrics

SpecMetrics == InitMetrics /\ [][NextMetrics]_vars

\* the arguments are in hand, the objective is not computed yet
InitObjective ==
    /\ SchedIdle
    /\ served = <<>>
    /\ metrics = NoMetrics
    /\ penalty_eval = NoPenalty
    /\ EMPTYLOAD_PENALTY_MULTIPLIER \in MultiplierChoices
    /\ \E wait_time \in WaitTimes, in_cab_time \in InCabTimes,
          emptyload_energy \in EmptyloadEnergies,
          running_energy \in RunningEnergies,
          wait_penalty_value \in WaitPenaltyValues :
          objective = [NoObjective EXCEPT
                          !.wait_time = wait_time,
                          !.in_cab_time = in_cab_time,
                          !.emptyload_energy = emptyload_energy,
                          !.running_energy = running_energy,
                          !.wait_penalty_value = wait_penalty_value]

ComputeObjective ==
    /\ ~objective.called
    /\ objective' =
          [objective EXCEPT
              !.called = TRUE,
              !.breakdown = compute_objective(objective.wait_time,
                                              objective.in_cab_time,
                                              objective.emptyload_energy,
                                              objective.running_energy,
                                              objective.wait_penalty_value)]
    /\ UNCHANGED <<schedVars, served, metrics, penalty_eval,
                   EMPTYLOAD_PENALTY_MULTIPLIER>>

NextObjective == ComputeObjective

SpecObjective == InitObjective /\ [][NextObjective]_vars

\* configurations with a scale of a tick or more, and the waits tried
\* under them: scale 60 s and 4 s, exponent 0.5, 1, 1.5 and 2, threshold
\* -3 s, 0 and 5 s
PenaltyInputsScaled ==
    [wait_time : {-20, 0, 1, 30, 50, 51, 100, 300},
     SCALE : {600, 40}, EXPONENT : {1, 2, 3, 4}, THRESHOLD : {-30, 0, 50}]

\* configurations whose scale is 0 or less and is floored at 1e-6 s; the
\* waits are short, for the penalty to stay in the number range
PenaltyInputsFloored ==
    [wait_time : {-20, 0, 1, 2, 3, 4},
     SCALE : {0, -50}, EXPONENT : {1, 2, 3}, THRESHOLD : {-30, 0, 2}]

\* the configuration and the wait are in hand, the penalty is not computed
InitPenalty ==
    /\ SchedIdle
    /\ served = <<>>
    /\ metrics = NoMetrics
    /\ objective = NoObjective
    /\ EMPTYLOAD_PENALTY_MULTIPLIER = 20
    /\ \E in \in PenaltyInputsScaled \cup PenaltyInputsFloored :
          penalty_eval = [called |-> FALSE, wait_time |-> in.wait_time,
                          SCALE |-> in.SCALE, EXPONENT |-> in.EXPONENT,
                          THRESHOLD |-> in.THRESHOLD, value |-> 0]

WaitPenalty ==
    /\ ~penalty_eval.called
    /\ penalty_eval' =
          [penalty_eval EXCEPT
              !.called = TRUE,
              !.value = wait_penalty_cfg(penalty_eval.wait_time,
                                         penalty_eval.SCALE,
                                         penalty_eval.EXPONENT,
                                         penalty_eval.THRESHOLD)]
    /\ UNCHANGED <<schedVars, served, metrics, objective,
                   EMPTYLOAD_PENALTY_MULTIPLIER>>

NextPenalty == WaitPenalty

SpecPenalty == InitPenalty /\ [][NextPenalty]_vars

-----------------------------------------------------------------------------
(* Properties of the scheduler loop *)

RECURSIVE SumQueueLengths(_)
SumQueueLengths(n) ==
    IF n = 0 THEN 0 ELSE Len(elevators[n].queue) + SumQueueLengths(n - 1)

QueuePositions ==
    UNION {{<<e, j>> : j \in 1..Len(elevators[e].queue)} :
              e \in 1..Len(elevators)}

\* C1: with a non-empty fleet every iteration of the loop removes exactly
\* one request from the backlog (the one at the committed index), so the
\* iterations done plus the backlog size is always N, and the call ends
\* with the backlog empty after exactly N iterations for N requests.
C1_BacklogShrinksByOne ==
    /\ pc = "loop" =>
          /\ elevators # <<>>
          /\ unassigned # <<>>
          /\ iter + Len(unassigned) = Len(requests)
    /\ (pc = "done" /\ elevators # <<>>) =>
          /\ unassigned = <<>>
          /\ iter = Len(requests)
    /\ last.branch # "none" =>
          /\ Len(unassigned) = Len(last.unassigned) - 1
          /\ \A i \in 1..Len(unassigned) :
                unassigned[i] = last.unassigned[IF i < last.idx THEN i ELSE i + 1]

C1_Witness ==
    /\ pc = "done"
    /\ Len(elevators) = 2
    /\ Len(requests) = MaxReq
    /\ iter = MaxReq
    /\ unassigned = <<>>

\* C2: at every step each elevator's served_requests equals its queue, and
\* when the call has finished with a non-empty fleet every input request is
\* at exactly one position of exactly one queue, so the queue lengths sum
\* to N (also when N exceeds the batch cap).
C2_EachRequestQueuedOnce ==
    /\ \A e \in 1..Len(elevators) :
          elevators[e].served_requests = elevators[e].queue
    /\ (pc = "done" /\ calls > 0 /\ elevators # <<>>) =>
          /\ \A i \in 1..Len(requests) :
                Cardinality({p \in QueuePositions :
                    elevators[p[1]].queue[p[2]] = requests[i]}) = 1
          /\ SumQueueLengths(Len(elevators)) = Len(requests)
          /\ Len(elevators) = 1 => Len(elevators[1].queue) = Len(requests)

C2_Witness ==
    /\ pc = "done"
    /\ Len(elevators) = 2
    /\ Len(requests) = MaxReq
    /\ batch_limit < Len(requests)
    /\ elevators[1].queue # <<>>
    /\ elevators[2].queue # <<>>
    /\ elevators[1].served_requests = elevators[1].queue

\* the cap the claim names, from the max_batch argument of the call
C3_Cap ==
    LET given == IF params[2].some THEN params[2].val ELSE MPC_MAX_BATCH
    IN IF given > 0 THEN given
       ELSE IF 3 * Len(elevators) >= 1 THEN 3 * Len(elevators) ELSE 1

\* C3: in every iteration the candidate set is non-empty and no larger
\* than the effective batch cap (max_batch if positive, else
\* max(3 * number of elevators, 1)), whatever the arrivals.
C3_CandidateSetWithinCap ==
    /\ pc = "loop" =>
          LET c == CandidateIndices(unassigned, horizon, batch_limit)
          IN /\ Len(c) >= 1
             /\ Len(c) <= C3_Cap
    /\ last.branch # "none" =>
          /\ Len(last.candidate_indices) >= 1
          /\ Len(last.candidate_indices) <= C3_Cap

C3_Witness ==
    /\ last.branch # "none"
    /\ Len(last.candidate_indices) = C3_Cap
    /\ Len(last.unassigned) > C3_Cap
    /\ \E k \in 1..Len(last.candidate_indices) :
          last.unassigned[last.candidate_indices[k]].arrival_time
             > last.unassigned[1].arrival_time + horizon
    /\ \E k \in 1..Len(last.candidate_indices) :
          last.unassigned[last.candidate_indices[k]].arrival_time
             <= last.unassigned[1].arrival_time + horizon

\* a is no worse than b: cheaper, or as cheap and finishing earlier, or as
\* cheap, finishing at the same time and with no larger passenger time
C4_NoWorse(a, b) ==
    \/ a.cost < b.cost
    \/ /\ a.cost = b.cost
       /\ \/ a.finish_time < b.finish_time
          \/ /\ a.finish_time = b.finish_time
             /\ a.passenger_time <= b.passenger_time

C5_EstimateFormula ==
    pc = "loop" =>
        \A e \in 1..Len(plans) : \A i \in 1..Len(unassigned) :
            LET plan == plans[e]
                r == unassigned[i]
                est == _estimate_incremental_cost(plan, r)
                dwell == hold_time(r.load, 0)
                ride == travel_time(r.load, r.origin, r.destination)
                ride_energy ==
                    IF r.origin # r.destination
                    THEN segment_energy(r.load,
                             Abs(r.destination - r.origin)
                             * (BUILDING_FLOOR_HEIGHT \div 100),
                             IF r.destination > r.origin THEN "up" ELSE "down")
                         + standby_energy(ride)
                    ELSE 0
            IN /\ est.finish_time =
                     Max(plan.time + travel_time(0, plan.floor, r.origin),
                         r.arrival_time) + dwell + ride
               /\ est.passenger_time = est.finish_time - r.arrival_time
               /\ (plan.floor = r.origin /\ plan.time = 0 /\ r.arrival_time = 0) =>
                     /\ est.finish_time = dwell + ride
                     /\ est.cost = WEIGHT_TIME * (dwell + ride)
                                   + WEIGHT_ENERGY
                                     * (standby_energy(dwell) + ride_energy)
                                   + FINISH_BIAS * (dwell + ride)

\* a cab at floor 1, free at 0, and a request from floor 1 arriving at 0,
\* next to a request the cab has to wait for
C5_Witness ==
    /\ pc = "loop"
    /\ \E e \in 1..Len(plans) : \E i \in 1..Len(unassigned) :
          /\ plans[e].floor = unassigned[i].origin
          /\ plans[e].time = 0
          /\ unassigned[i].arrival_time = 0
          /\ unassigned[i].origin # unassigned[i].destination
    /\ \E e \in 1..Len(plans) : \E i \in 1..Len(unassigned) :
          unassigned[i].arrival_time
             > plans[e].time + travel_time(0, plans[e].floor, unassigned[i].origin)

\* C6: a commit appends the request at the end of the chosen elevator's
\* queue and served-list and sets that elevator's PlanState to the
\* request's destination and the estimated finish time; every other
\* elevator's queue, served-list and PlanState, every elevator's id, floor,
\* load and direction, and the requests themselves are left as they were.
C6_CommitFrame ==
    [][pc = "loop" =>
        \E e \in 1..Len(elevators) : \E i \in 1..Len(unassigned) :
            LET r == unassigned[i]
            IN /\ \E j \in 1..Len(requests) : requests[j] = r
               /\ elevators'[e].queue = Append(elevators[e].queue, r)
               /\ elevators'[e].served_requests
                     = Append(elevators[e].served_requests, r)
               /\ plans'[e] =
                     [floor |-> r.destination,
                      time |-> _estimate_incremental_cost(plans[e], r).finish_time]
               /\ Len(elevators') = Len(elevators)
               /\ Len(plans') = Len(plans)
               /\ \A f \in 1..Len(elevators) :
                     /\ elevators'[f].id = elevators[f].id
                     /\ elevators'[f].floor = elevators[f].floor
                     /\ elevators'[f].load = elevators[f].load
                     /\ elevators'[f].direction = elevators[f].direction
                     /\ f # e => /\ elevators'[f] = elevators[f]
                                 /\ plans'[f] = plans[f]
               /\ requests' = requests
    ]_vars

\* a commit onto a queue that already held a request, next to another
\* elevator with a queue of its own
C6_Witness ==
    /\ last.branch = "best"
    /\ Len(elevators) = 2
    /\ Len(elevators[last.elevator_id].queue) >= 2
    /\ elevators[3 - last.elevator_id].queue # <<>>
    /\ elevators[last.elevator_id].queue[Len(elevators[last.elevator_id].queue)]
          = last.request.val

-----------------------------------------------------------------------------
(* Properties of repeated calls on one fleet *)

\* ascending arrival time, input order (ids are input positions) on ties
C7_InSortedOrder(un) ==
    \A i \in 1..Len(un) : \A j \in (i + 1)..Len(un) :
        \/ un[i].arrival_time < un[j].arrival_time
        \/ /\ un[i].arrival_time = un[j].arrival_time
           /\ un[i].id < un[j].id

-----------------------------------------------------------------------------
(* Properties of the evaluator *)

C9_Counted(req) ==
    req.arrival_time.some /\ req.destination_arrival_time.some

C9_Duration(req) ==
    Max(req.destination_arrival_time.val - req.arrival_time.val, 0)

RECURSIVE C9_Sum(_, _)
C9_Sum(f, n) == IF n = 0 THEN 0 ELSE f[n] + C9_Sum(f, n - 1)

\* C9: summarize_passenger_metrics counts exactly the requests whose
\* arrival time and destination-arrival time are both defined, and only
\* they enter the totals; a counted request without origin-arrival adds
\* its whole duration (at least 0) to the in-cab time and nothing to the
\* wait time or the wait penalty; a counted request with origin-arrival
\* adds its wait, the penalty of that wait and its ride; the empty list
\* gives all-zero totals and served_count 0.
C9_MetricsCountCompletedRequests ==
    metrics.some =>
        LET n == Len(served)
            m == metrics.val
            counted == {i \in 1..n : C9_Counted(served[i])}
            withOrigin == {i \in counted : served[i].origin_arrival_time.some}
            wait == [i \in 1..n |->
                        Max(served[i].origin_arrival_time.val
                                - served[i].arrival_time.val, 0)]
            ride == [i \in 1..n |->
                        Max(served[i].destination_arrival_time.val
                                - served[i].origin_arrival_time.val, 0)]
        IN /\ m.served_count = Cardinality(counted)
           /\ m.total_passenger_time
                 = C9_Sum([i \in 1..n |-> IF i \in counted
                                          THEN C9_Duration(served[i]) ELSE 0], n)
           /\ m.total_wait_time
                 = C9_Sum([i \in 1..n |-> IF i \in withOrigin
                                          THEN wait[i] ELSE 0], n)
           /\ m.wait_penalty_total
                 = C9_Sum([i \in 1..n |-> IF i \in withOrigin
                                          THEN wait_penalty(wait[i]) ELSE 0], n)
           /\ m.total_in_cab_time
                 = C9_Sum([i \in 1..n |->
                              IF i \in withOrigin THEN ride[i]
                              ELSE IF i \in counted
                                   THEN C9_Duration(served[i]) ELSE 0], n)
           /\ served = <<>> => m = ZeroMetrics

\* a list holding a skipped request, a counted request without
\* origin-arrival and of positive duration, and a counted request that
\* waited
C9_Witness ==
    /\ metrics.some
    /\ \E i, j, k \in 1..Len(served) :
          /\ ~C9_Counted(served[i])
          /\ C9_Counted(served[j])
          /\ ~served[j].origin_arrival_time.some
          /\ C9_Duration(served[j]) > 0
          /\ C9_Counted(served[k])
          /\ served[k].origin_arrival_time.some
    /\ metrics.val.served_count = 2
    /\ metrics.val.total_wait_time > 0
    /\ metrics.val.wait_penalty_total > metrics.val.total_wait_time

\* C10: the total_cost compute_objective returns is the sum of its four
\* reported terms; for a multiplier of at least 1 the empty-load term is
\* WEIGHT_ENERGY * emptyload_energy * (multiplier - 1), hence 0 at
\* multiplier 1; and with no negative argument no term is negative.
C10_ObjectiveIsSumOfTerms ==
    objective.called =>
        LET b == objective.breakdown
            nonNegative ==
                /\ objective.wait_time >= 0
                /\ objective.in_cab_time >= 0
                /\ objective.emptyload_energy >= 0
                /\ objective.running_energy >= 0
                /\ objective.wait_penalty_value.val >= 0
        IN /\ b.total_cost = b.wait_cost + b.ride_cost
                                 + b.running_energy_cost
                                 + b.emptyload_energy_cost
           /\ EMPTYLOAD_PENALTY_MULTIPLIER >= 10 =>
                 b.emptyload_energy_cost * 10
                     = WEIGHT_ENERGY * objective.emptyload_energy
                           * (EMPTYLOAD_PENALTY_MULTIPLIER - 10)
           /\ EMPTYLOAD_PENALTY_MULTIPLIER = 10 => b.emptyload_energy_cost = 0
           /\ nonNegative =>
                 /\ b.wait_cost >= 0
                 /\ b.ride_cost >= 0
                 /\ b.running_energy_cost >= 0
                 /\ b.emptyload_energy_cost >= 0

\* a call with positive arguments under a multiplier above 1, charging a
\* surcharge
C10_Witness ==
    /\ objective.called
    /\ EMPTYLOAD_PENALTY_MULTIPLIER = 15
    /\ objective.wait_time > 0
    /\ objective.in_cab_time > 0
    /\ objective.emptyload_energy > 0
    /\ objective.running_energy > 0
    /\ ~objective.wait_penalty_value.some
    /\ objective.breakdown.emptyload_energy_cost > 0
    /\ objective.breakdown.total_cost > objective.breakdown.wait_cost

\* C11: wait_penalty(w) is 0 for w <= 0 and w for 0 <= w <= threshold;
\* above the threshold it is threshold + excess * (1 + (excess / scale)
\* ** exponent) with excess = w - threshold (exactly for the exponents 1
\* and 2, and between those two values for the exponent 1.5), so that it
\* gives the threshold at excess 0 as the branch below does (the two
\* branches meet at the threshold), grows strictly with w and
\* is never below w; a threshold below 0 acts as 0, an exponent below 1
\* as 1 and a scale of 0 or less as 1e-6 s, a 100000th of a tick.
C11_WaitPenaltyPiecewise ==
    penalty_eval.called =>
        LET w == penalty_eval.wait_time
            v == penalty_eval.value
            SCALE == penalty_eval.SCALE
            exponent == IF penalty_eval.EXPONENT < 2 THEN 2
                        ELSE penalty_eval.EXPONENT
            threshold == IF penalty_eval.THRESHOLD < 0 THEN 0
                         ELSE penalty_eval.THRESHOLD
            excess == w - threshold
            linear == (excess * excess) \div SCALE
            square == (excess * excess * excess) \div (SCALE * SCALE)
            after == wait_penalty_cfg(w + 1, SCALE, penalty_eval.EXPONENT,
                                      penalty_eval.THRESHOLD)
        IN /\ w <= 0 => v = 0
           /\ (0 <= w /\ w <= threshold) => v = w
           /\ v >= w
           /\ (w > 0 /\ w = threshold) =>
                 /\ after > v
                 /\ v = threshold
                         + IF SCALE <= 0
                           THEN NonlinearExcessAtFloor(0, exponent)
                           ELSE NonlinearExcess(0, SCALE, exponent)
           /\ (w > 0 /\ w > threshold) =>
                 /\ after > v
                 /\ (SCALE >= 1 /\ exponent = 2) =>
                       v = threshold + excess + linear
                 /\ (SCALE >= 1 /\ exponent = 4) =>
                       v = threshold + excess + square
                 /\ (SCALE >= 1 /\ exponent = 3) =>
                       /\ v >= threshold + excess + Min(linear, square)
                       /\ v <= threshold + excess + Max(linear, square)
                 /\ (SCALE <= 0 /\ exponent = 2) =>
                       v = threshold + excess + excess * excess * 100000
                 /\ (SCALE <= 0 /\ exponent = 3) =>
                       v >= threshold + excess + excess * excess * 100000
           /\ v = wait_penalty_cfg(w, SCALE, exponent, threshold)

\* a wait above a positive threshold, penalised more than linearly under
\* a configured exponent below 1
C11_Witness ==
    /\ penalty_eval.called
    /\ penalty_eval.EXPONENT < 2
    /\ penalty_eval.THRESHOLD > 0
    /\ penalty_eval.wait_time > penalty_eval.THRESHOLD
    /\ penalty_eval.value > penalty_eval.wait_time

-----------------------------------------------------------------------------
(* Further properties of the scheduler loop *)

\* C12: in every iteration the candidate set is exactly the first
\* min(effective batch cap, backlog size) positions of the arrival-sorted
\* backlog, for every lookahead_window, so requests arriving after the
\* end of the window are candidates too; the committed request has fewer
\* than cap backlog requests before it.
C12_CandidatesAreBacklogPrefix ==
    /\ pc = "loop" =>
          CandidateIndices(unassigned, horizon, batch_limit)
             = [i \in 1..Min(C3_Cap, Len(unassigned)) |-> i]
    /\ last.branch # "none" =>
          /\ last.candidate_indices
                = [i \in 1..Min(C3_Cap, Len(last.unassigned)) |-> i]
          /\ last.idx - 1 < C3_Cap
          /\ last.idx <= Len(last.unassigned)

\* an iteration that commits a request arriving after the end of the
\* window, from a backlog longer than the cap
C12_Witness ==
    /\ last.branch # "none"
    /\ params[1].some
    /\ Len(last.unassigned) > C3_Cap
    /\ last.idx > 1
    /\ last.request.val.arrival_time
          > last.unassigned[1].arrival_time + horizon

\* C13: a commit never lowers an elevator's projected free time
\* (PlanState.time): the committing elevator's becomes the finish time of
\* the committed request, the others keep theirs; that finish time is no
\* earlier than the request's arrival time and no earlier than the
\* elevator's projected free time before the commit, and the estimated
\* passenger time is at least 0.
C13_ProjectedFreeTimeGrows ==
    last.branch # "none" =>
        /\ \A e \in 1..Len(plans) :
              /\ plans[e].time >= last.plans[e].time
              /\ e # last.elevator_id => plans[e] = last.plans[e]
        /\ plans[last.elevator_id].time = last.finish_time
        /\ last.finish_time >= last.request.val.arrival_time
        /\ last.finish_time >= last.plans[last.elevator_id].time
        /\ last.passenger_time
              = last.finish_time - last.request.val.arrival_time
        /\ last.passenger_time >= 0

\* a commit to an elevator that had been committed to before, of a
\* request that had arrived before the elevator is projected to be free
C13_Witness ==
    /\ last.branch # "none"
    /\ last.plans[last.elevator_id].time > 0
    /\ last.request.val.arrival_time > 0
    /\ last.request.val.arrival_time < last.plans[last.elevator_id].time
    /\ last.finish_time > last.plans[last.elevator_id].time
    /\ last.passenger_time > 0

\* C14: the least-busy fallback is never taken: in every iteration the
\* backlog and the candidate set are non-empty, _estimate_incremental_cost
\* returns an estimate for every (candidate, elevator) pair and best_choice
\* is set, so every commit is that of the best pair.
C14_FallbackNeverTaken ==
    /\ last.branch \in {"none", "best"}
    /\ pc = "loop" =>
          /\ unassigned # <<>>
          /\ elevators # <<>>
    /\ last.branch # "none" =>
          /\ last.candidate_indices # <<>>
          /\ \A k \in 1..Len(last.candidate_indices) :
                \A e \in 1..Len(last.plans) :
                   _estimate_incremental_cost(
                       last.plans[e],
                       last.unassigned[last.candidate_indices[k]]).some
          /\ last.idx \in {last.candidate_indices[k] :
                               k \in 1..Len(last.candidate_indices)}
          /\ last.elevator_id \in 1..Len(last.plans)

\* a finished call on two elevators that differ in projected free time,
\* every commit made through the best-pair branch, the last one not to
\* the elevator that was free first
C14_Witness ==
    /\ pc = "done"
    /\ iter >= 2
    /\ last.branch = "best"
    /\ Len(last.plans) = 2
    /\ last.plans[1].time # last.plans[2].time
    /\ last.elevator_id # LeastBusy(last.plans)

====
